---- MODULE Spec2Model ----
(***************************************************************************)
(* TextStreamBuffer (src/src/text-stream-buffer.ts): a text stream is      *)
(* sanitized, batched into chunks, locally shuffled and committed to       *)
(* `processed`; a cursor `startAt` drains it and compacts the consumed     *)
(* prefix.  The file holds two versions of the class: the minChunkSize     *)
(* version (lines 7-107), which commits the whole of `pending` as one      *)
(* chunk, and the chunkSize version (lines 114-222), which commits         *)
(* floor(pending.length / chunkSize) chunks of exactly chunkSize           *)
(* characters.  `variant` selects the version.                             *)
(*                                                                         *)
(* Strings are sequences of one-character strings.  Arrays are sequences;  *)
(* the code's 0-based position i is position i + 1 of the sequence.        *)
(***************************************************************************)
EXTENDS Integers, Sequences, FiniteSets, TLC

\* ------------------------------------------------------------------ bounds
\* longest raw chunk handed to append (and to the constructor)
MaxRaw == 1
\* largest configured chunkSize / minChunkSize
MaxChunkSize == 2
\* total number of sanitized characters appended in one run
MaxTotal == 3
\* largest argument of advance(n)
MaxAdvance == 2
\* advance is not called once the state token has reached this value
MaxState == 2

\* largest configured shuffle_radius
MaxShuffleRadius == 2

\* ------------------------------------------------------------- characters
LowerCase == {"a", "b"}
UpperCase == {"A", "B"}
Digits == {"7"}
WhiteSpace == {" ", "\t"}
Other == {"!"}

\* the raw characters a chunk is made of
RawChars == {"a", " ", "!"}

RECURSIVE SeqsUpTo(_, _)
SeqsUpTo(S, n) ==
    IF n = 0 THEN {<<>>}
    ELSE LET shorter == SeqsUpTo(S, n - 1)
         IN  shorter \cup {Append(s, c) : s \in {t \in shorter : Len(t) = n - 1}, c \in S}

RawInputs == SeqsUpTo(RawChars, MaxRaw)

Range(s) == {s[i] : i \in 1..Len(s)}

\* Array.prototype.slice(from): the elements at 0-based positions >= from
Slice(s, from) == SubSeq(s, from + 1, Len(s))

\* ------------------------------------------------------------ sanitizeText
\* value.replace(/\s+/g, ' '): every maximal run of whitespace becomes one space
RECURSIVE DropLeadingSpace(_)
DropLeadingSpace(s) ==
    IF s # <<>> /\ Head(s) \in WhiteSpace THEN DropLeadingSpace(Tail(s)) ELSE s

RECURSIVE CollapseWhitespace(_)
CollapseWhitespace(s) ==
    IF s = <<>> THEN <<>>
    ELSE IF Head(s) \in WhiteSpace
         THEN <<" ">> \o CollapseWhitespace(DropLeadingSpace(s))
         ELSE <<Head(s)>> \o CollapseWhitespace(Tail(s))

\* .replace(/[^a-zA-Z0-9 ]/g, '')
Kept(c) == c \in LowerCase \cup UpperCase \cup Digits \cup {" "}
StripOther(s) == SelectSeq(s, Kept)

\* .toUpperCase()
Upper(c) == CASE c = "a" -> "A" [] c = "b" -> "B" [] OTHER -> c
ToUpperCase(s) == [i \in 1..Len(s) |-> Upper(s[i])]

sanitizeText(value) == ToUpperCase(StripOther(CollapseWhitespace(value)))

\* ------------------------------------------------------------------- state
VARIABLES
    variant,        \* "minChunk" (lines 7-107) or "chunk" (lines 114-222)
    chunkSize,      \* chunkSize, or minChunkSize in the minChunk version
    shuffle_radius,
    pending,
    uniqueChars,
    processed,
    startAt,
    state,
    last,           \* the most recent call: its arguments, result and pre-state
    committedLog,   \* the sanitized characters taken out of pending by commits, in order
    shiftedLog,     \* chars of the slots returned by shift, in call order
    ring,           \* a RingBuffer (the SpiralSlotRing's inherited part): buffer, start
    rlast,          \* the most recent RingBuffer / SpiralSlotRing call
    other,          \* a second TextStreamBuffer, not the one the window was built on
    san,            \* a sanitizeText computation: input, results, stage
    drv,            \* the SpiralController: letter written, raised, slot histories
    shf,            \* one chunk's shuffle: radius, jitter draws, slots, stage
    run,            \* one append call taken step by step: position, loop counter
    llm             \* the LlmTextStream: flags, timer, request, buffer length

bufferVars == <<variant, chunkSize, shuffle_radius, pending, uniqueChars, processed,
                startAt, state, last, committedLog, shiftedLog>>

vars == <<variant, chunkSize, shuffle_radius, pending, uniqueChars, processed,
          startAt, state, last, committedLog, shiftedLog, ring, rlast, other, san,
          drv, shf, run, llm>>

\* the fields of the buffer, read together
Buf == [pending |-> pending, uniqueChars |-> uniqueChars, processed |-> processed,
        startAt |-> startAt, state |-> state]

\* field initializers, lines 118-124
NewBuf == [pending |-> <<>>, uniqueChars |-> {" "}, processed |-> <<>>,
           startAt |-> 0, state |-> 0]

\* get text(), get length()
text(b) == [i \in 1..Len(Slice(b.processed, b.startAt)) |-> Slice(b.processed, b.startAt)[i].char]
length(b) == Len(b.processed) - b.startAt

Chars(slots) == [i \in 1..Len(slots) |-> slots[i].char]

\* ----------------------------------------------------------- shuffle-commit
\* Math.floor(Math.random() * k) for Math.random() in [0, 1)
RandomFloor(k) == IF k = 0 THEN {0} ELSE 0..(k - 1)

\* mutant: a jitter three times as wide
JitterValues_Wide(radius) == (0 - 3 * radius)..(3 * radius)

\* Math.floor(Math.random() * this.shuffle_radius * 2) - this.shuffle_radius
JitterValues(radius) == {f - radius : f \in RandomFloor(radius * 2)}

\* Array.prototype.sort is stable: insertion after the last element not greater
InsertByShuffled(s, x) ==
    LET k == Cardinality({i \in 1..Len(s) : s[i].shuffled <= x.shuffled})
    IN  SubSeq(s, 1, k) \o <<x>> \o SubSeq(s, k + 1, Len(s))

RECURSIVE SortByShuffled(_)
SortByShuffled(s) ==
    IF s = <<>> THEN <<>>
    ELSE InsertByShuffled(SortByShuffled(SubSeq(s, 1, Len(s) - 1)), s[Len(s)])

InsertByIndex(s, x) ==
    LET k == Cardinality({i \in 1..Len(s) : s[i].index <= x.index})
    IN  SubSeq(s, 1, k) \o <<x>> \o SubSeq(s, k + 1, Len(s))

RECURSIVE SortByIndex(_)
SortByIndex(s) ==
    IF s = <<>> THEN <<>>
    ELSE InsertByIndex(SortByIndex(SubSeq(s, 1, Len(s) - 1)), s[Len(s)])

\* the chars array of a chunk of M characters after the sort by jitter key
\* shuffled = index + jitter: the original 0-based positions, in sorted order
JitterOrder(M, jit) ==
    LET sorted == SortByShuffled([i \in 1..M |->
                      [index |-> i - 1, shuffled |-> (i - 1) + jit[i]]])
    IN  [q \in 1..M |-> sorted[q].index]

\* every order the jitter sort produces, by shuffle_radius and chunk length,
\* over all outcomes of Math.random()
ShuffleOrders ==
    [radius \in 0..MaxShuffleRadius |->
        [M \in 0..MaxTotal |->
            {JitterOrder(M, jit) : jit \in [1..M -> JitterValues(radius)]}]]

\* mutant: the difference taken the other way round
ReadableDelta_Flipped(rank, sortedChars) == sortedChars[rank + 1].index - rank

\* slot.readableDelta = index - chars[ index ].index, index the 0-based sorted rank
ReadableDelta(rank, sortedChars) == rank - sortedChars[rank + 1].index

\* mutant: the slots are left in jitter order
CommitChunk_Unsorted(chunk, order) ==
    LET chars  == [q \in 1..Len(chunk) |->
                      [char |-> chunk[order[q] + 1], index |-> order[q]]]
    IN  [q \in 1..Len(chars) |->
            [index |-> chars[q].index, char |-> chars[q].char,
             readableDelta |-> ReadableDelta(q - 1, chars)]]

\* one chunk, its chars sorted by jitter key into `order`: record the rank as
\* readableDelta, sort back by index
CommitChunk(chunk, order) ==
    LET chars  == [q \in 1..Len(chunk) |->
                      [char |-> chunk[order[q] + 1], index |-> order[q]]]
        slots  == [q \in 1..Len(chars) |->
                      [index |-> chars[q].index, char |-> chars[q].char,
                       readableDelta |-> ReadableDelta(q - 1, chars)]]
    IN  SortByIndex(slots)

\* the number of chunks one append commits from pending `p`
\* (the commit test has already passed)
ChunkCount(p) ==
    IF variant = "chunk" THEN Len(p) \div chunkSize ELSE 1

\* the 0-based i-th chunk of `p`
ChunkAt(p, i) ==
    IF variant = "chunk" THEN SubSeq(p, i * chunkSize + 1, (i + 1) * chunkSize) ELSE p

\* the characters left in pending after the commit
Remainder(p) ==
    IF variant = "chunk" THEN Slice(p, ChunkCount(p) * chunkSize) ELSE <<>>

\* mutant: the fixed-chunk commit test is strict, like the first version's
CommitDue_Strict(p, force) == Len(p) > chunkSize \/ force

\* the commit test
CommitDue(p, force) ==
    IF variant = "chunk" THEN Len(p) >= chunkSize \/ force
                         ELSE Len(p) > chunkSize \/ force

\* the number of characters an append of sanitized text `s` commits
CommitLen(b, s, force) ==
    IF s # <<>> /\ CommitDue(b.pending \o s, force)
    THEN Len(b.pending \o s) - Len(Remainder(b.pending \o s))
    ELSE 0

\* the jitter orders of the chunks an append of sanitized text `s` commits,
\* one per chunk
ChunkOrders(b, s, force) ==
    IF CommitLen(b, s, force) = 0 THEN {<<>>}
    ELSE [1..ChunkCount(b.pending \o s) ->
             ShuffleOrders[shuffle_radius][Len(ChunkAt(b.pending \o s, 0))]]

\* the committed chunks, each a sequence of slots
CommittedChunks(p, orders) ==
    [i \in 1..ChunkCount(p) |-> CommitChunk(ChunkAt(p, i - 1), orders[i])]

RECURSIVE Flatten(_)
Flatten(ss) == IF ss = <<>> THEN <<>> ELSE Head(ss) \o Flatten(Tail(ss))

\* ------------------------------------------------------------- operations
\* mutant: the committed slots are put in front of processed
append_Prepend(b, chunk, force, orders) ==
    LET sanitized == sanitizeText(chunk)
        p         == b.pending \o sanitized
    IN  IF sanitized = <<>> THEN b
        ELSE IF CommitDue(p, force)
             THEN [b EXCEPT !.uniqueChars = @ \cup Range(sanitized),
                            !.processed   = Flatten(CommittedChunks(p, orders)) \o @,
                            !.pending     = Remainder(p),
                            !.state       = @ + 1]
             ELSE [b EXCEPT !.uniqueChars = @ \cup Range(sanitized),
                            !.pending     = p]

\* mutant: a chunk that sanitizes to nothing still counts as a change
append_CountsEmpty(b, chunk, force, orders) ==
    LET sanitized == sanitizeText(chunk)
        p         == b.pending \o sanitized
    IN  IF sanitized = <<>> THEN [b EXCEPT !.state = @ + 1]
        ELSE IF CommitDue(p, force)
             THEN [b EXCEPT !.uniqueChars = @ \cup Range(sanitized),
                            !.processed   = @ \o Flatten(CommittedChunks(p, orders)),
                            !.pending     = Remainder(p),
                            !.state       = @ + 1]
             ELSE [b EXCEPT !.uniqueChars = @ \cup Range(sanitized),
                            !.pending     = p]

\* mutant: a commit clears pending, remainder included
append_LosesRemainder(b, chunk, force, orders) ==
    LET sanitized == sanitizeText(chunk)
        p         == b.pending \o sanitized
    IN  IF sanitized = <<>> THEN b
        ELSE IF CommitDue(p, force)
             THEN [b EXCEPT !.uniqueChars = @ \cup Range(sanitized),
                            !.processed   = @ \o Flatten(CommittedChunks(p, orders)),
                            !.pending     = <<>>,
                            !.state       = @ + 1]
             ELSE [b EXCEPT !.uniqueChars = @ \cup Range(sanitized),
                            !.pending     = p]

\* mutant: uniqueChars is rebuilt from the chunk alone
append_ResetUnique(b, chunk, force, orders) ==
    LET sanitized == sanitizeText(chunk)
        p         == b.pending \o sanitized
    IN  IF sanitized = <<>> THEN b
        ELSE IF CommitDue(p, force)
             THEN [b EXCEPT !.uniqueChars = Range(sanitized),
                            !.processed   = @ \o Flatten(CommittedChunks(p, orders)),
                            !.pending     = Remainder(p),
                            !.state       = @ + 1]
             ELSE [b EXCEPT !.uniqueChars = Range(sanitized),
                            !.pending     = p]

\* append(chunk, force): the buffer after the call
append(b, chunk, force, orders) ==
    LET sanitized == sanitizeText(chunk)
        p         == b.pending \o sanitized
    IN  IF sanitized = <<>> THEN b
        ELSE IF CommitDue(p, force)
             THEN [b EXCEPT !.uniqueChars = @ \cup Range(sanitized),
                            !.processed   = @ \o Flatten(CommittedChunks(p, orders)),
                            !.pending     = Remainder(p),
                            !.state       = @ + 1]
             ELSE [b EXCEPT !.uniqueChars = @ \cup Range(sanitized),
                            !.pending     = p]

\* mutant: the compaction drops one slot too many
Compact_OffByOne(b) ==
    IF b.startAt > chunkSize
    THEN [b EXCEPT !.processed = Slice(b.processed, b.startAt + 1), !.startAt = 0]
    ELSE b

\* mutant: the compaction already happens at startAt = chunkSize
Compact_AtEqual(b) ==
    IF b.startAt >= chunkSize
    THEN [b EXCEPT !.processed = Slice(b.processed, b.startAt), !.startAt = 0]
    ELSE b

\* the compaction shared by shift and advance
Compact(b) ==
    IF b.startAt > chunkSize
    THEN [b EXCEPT !.processed = Slice(b.processed, b.startAt), !.startAt = 0]
    ELSE b

\* the buffer after the cursor move of shift, before the compaction test
shiftMoved(b) == [b EXCEPT !.startAt = @ + 1, !.state = @ + 1]

\* mutant: the last committed slot is not held back
shiftDue_NoLookahead(b) == b.startAt < Len(b.processed)

shiftDue(b) == b.startAt < Len(b.processed) - 1

\* shift(): the buffer after the call; the result is shiftResult
shift(b) == IF shiftDue(b) THEN Compact(shiftMoved(b)) ELSE b

\* mutant: the cursor is incremented before the read
shiftResult_PreIncrement(b) == IF shiftDue(b) THEN <<b.processed[b.startAt + 2]>> ELSE <<>>

\* the returned slot, as a sequence of one slot; <<>> is null
shiftResult(b) == IF shiftDue(b) THEN <<b.processed[b.startAt + 1]>> ELSE <<>>

advanceMoved(b, n) == [b EXCEPT !.startAt = @ + n, !.state = @ + 1]

advanceDue(b) == b.startAt < Len(b.processed)

advance(b, n) == IF advanceDue(b) THEN Compact(advanceMoved(b, n)) ELSE b

\* ---------------------------------------------------------------- actions
SetBuf(b) ==
    /\ pending' = b.pending
    /\ uniqueChars' = b.uniqueChars
    /\ processed' = b.processed
    /\ startAt' = b.startAt
    /\ state' = b.state

\* the record of an append call on buffer b; cursor is startAt after the cursor
\* move of shift/advance and before the compaction test
AppendRecord(b, sanitized, force, orders) ==
    [op |-> "append", force |-> force, sanitized |-> sanitized, n |-> 0,
     ret |-> <<>>,
     chunks |-> IF CommitLen(b, sanitized, force) > 0
                THEN CommittedChunks(b.pending \o sanitized, orders) ELSE <<>>,
     cursor |-> b.startAt, pre |-> b]

\* constructor(initialText, chunkSize): this.append(initialText, true)
InitBuffer ==
    /\ variant \in {"minChunk", "chunk"}
    /\ chunkSize \in 1..MaxChunkSize
    /\ shuffle_radius \in {0, MaxShuffleRadius}
    /\ \E initialText \in RawInputs :
         LET s == sanitizeText(initialText) IN
         \E orders \in ChunkOrders(NewBuf, s, TRUE) :
            LET b == append(NewBuf, initialText, TRUE, orders)
                c == AppendRecord(NewBuf, s, TRUE, orders)
            IN  /\ pending = b.pending
                /\ uniqueChars = b.uniqueChars
                /\ processed = b.processed
                /\ startAt = b.startAt
                /\ state = b.state
                /\ last = [c EXCEPT !.op = "new"]
                /\ committedLog = SubSeq(s, 1, CommitLen(NewBuf, s, TRUE))
                /\ shiftedLog = <<>>

\* no RingBuffer has been constructed
NoRing == [buffer |-> <<>>, start |-> 0]

NoRingCall == [op |-> "none", size |-> 0, thrown |-> FALSE, index |-> 0, items |-> <<>>,
               ret |-> <<>>, pre |-> NoRing, arg |-> "none",
               preMain |-> NewBuf, post |-> NewBuf, shifts |-> 0, base |-> NoRing]

NoSanitize == [input |-> <<>>, once |-> <<>>, twice |-> <<>>, stage |-> 0]

\* the parts of the state a TextStreamBuffer alone leaves untouched
\* no controller: nothing written, nothing entered
NoDriver == [entered |-> <<>>, committed |-> <<>>,
             letter |-> [char |-> <<>>, readableDelta |-> <<>>], raised |-> FALSE]

IdleWindow == ring = NoRing /\ rlast = NoRingCall /\ other = NewBuf /\ drv = NoDriver
\* no chunk under the shuffle
NoShuffle == [radius |-> 0, jit |-> <<>>, slots |-> <<>>, stage |-> 0]

\* no append call under way
NoRun == [pc |-> "idle", i |-> 0, chunks |-> 0, force |-> FALSE, calls |-> 0]

\* no LlmTextStream: the field initializers, lines 109-110
NoLlm == [started |-> FALSE, streaming |-> FALSE, pendingRetry |-> 0,
          timers |-> {}, requests |-> 0, length |-> 0, refillThreshold |-> 0]

IdleCalls == run = NoRun /\ llm = NoLlm

IdleSanitize == san = NoSanitize /\ shf = NoShuffle /\ IdleCalls

Init == InitBuffer /\ IdleWindow /\ IdleSanitize

DoAppend ==
    \E chunk \in RawInputs, force \in BOOLEAN :
        LET s == sanitizeText(chunk) IN
        /\ Len(committedLog) + Len(pending) + Len(s) <= MaxTotal
        /\ \E orders \in ChunkOrders(Buf, s, force) :
              /\ SetBuf(append(Buf, chunk, force, orders))
              /\ last' = AppendRecord(Buf, s, force, orders)
              /\ committedLog' = committedLog \o
                                    SubSeq(pending \o s, 1, CommitLen(Buf, s, force))
        /\ UNCHANGED <<variant, chunkSize, shuffle_radius, shiftedLog>>
        /\ UNCHANGED <<ring, rlast, other, san, drv, shf, run, llm>>

DoShift ==
    /\ SetBuf(shift(Buf))
    /\ last' = [op |-> "shift", force |-> FALSE, sanitized |-> <<>>, n |-> 0,
                ret |-> shiftResult(Buf), chunks |-> <<>>,
                cursor |-> IF shiftDue(Buf) THEN shiftMoved(Buf).startAt ELSE startAt,
                pre |-> Buf]
    /\ shiftedLog' = shiftedLog \o Chars(shiftResult(Buf))
    /\ UNCHANGED <<variant, chunkSize, shuffle_radius, committedLog>>
    /\ UNCHANGED <<ring, rlast, other, san, drv, shf, run, llm>>

DoAdvance ==
    \E n \in 0..MaxAdvance :
        /\ state < MaxState
        /\ SetBuf(advance(Buf, n))
        /\ last' = [op |-> "advance", force |-> FALSE, sanitized |-> <<>>, n |-> n,
                    ret |-> <<>>, chunks |-> <<>>,
                    cursor |-> IF advanceDue(Buf) THEN advanceMoved(Buf, n).startAt
                               ELSE startAt,
                    pre |-> Buf]
        /\ UNCHANGED <<variant, chunkSize, shuffle_radius, committedLog, shiftedLog>>
        /\ UNCHANGED <<ring, rlast, other, san, drv, shf, run, llm>>

Next == DoAppend \/ DoShift \/ DoAdvance

Spec == Init /\ [][Next]_vars

\* producer and consumer only: append and shift, no bulk cursor move
NextStream == DoAppend \/ DoShift

SpecStream == Init /\ [][NextStream]_vars

\* =============================================================== RingBuffer
\* src/src/ring-buffer.ts. A cell of the backing array is <<>> while it is
\* still a hole of new Array(size) and <<x>> once x was written; a returned
\* <<>> is the code's undefined.
MaxRingSize == 2
MaxItem == 2

RingItems == 1..MaxItem

RingBuffer_throws_Negative(size) == size < 0

\* if (size <= 0) throw new Error(...)
RingBuffer_throws(size) == size <= 0

\* this.buffer = new Array(size); start = 0
RingBuffer_new(size) == [buffer |-> [i \in 1..size |-> <<>>], start |-> 0]

\* for (i = 0; i < items.length; i++) buffer[(from + i) % length] = items[i]
RECURSIVE WriteLoop(_, _, _)
WriteLoop(buffer, from, items) ==
    IF items = <<>> THEN buffer
    ELSE WriteLoop([buffer EXCEPT ![(from % Len(buffer)) + 1] = <<Head(items)>>],
                   from + 1, Tail(items))

RingBuffer_push_Absolute(r, items) == [r EXCEPT !.buffer = WriteLoop(@, 0, items)]

RingBuffer_push(r, items) == [r EXCEPT !.buffer = WriteLoop(@, r.start, items)]

\* mutant: the origin is not wrapped
RingBuffer_shift_NoWrap(r) == [r EXCEPT !.start = @ + 1]

\* mutant: the item is read after the origin moved
RingBuffer_shiftResult_Late(r) == r.buffer[((r.start + 1) % Len(r.buffer)) + 1]

\* const item = buffer[start]; start = (start + 1) % buffer.length; return item
RingBuffer_shift(r) == [r EXCEPT !.start = (@ + 1) % Len(r.buffer)]
RingBuffer_shiftResult(r) == r.buffer[r.start + 1]

RingBuffer_size(r) == Len(r.buffer)

\* buffer[(start + index) % buffer.length]
RingBuffer_get(r, index) == r.buffer[((r.start + index) % Len(r.buffer)) + 1]

RingBuffer_set_Absolute(r, index, items) ==
    [r EXCEPT !.buffer = WriteLoop(@, index, items)]

RingBuffer_set(r, index, items) ==
    [r EXCEPT !.buffer = WriteLoop(@, r.start + index, items)]

\* a buffer that is constructed and never used
IdleBuffer ==
    /\ variant = "chunk" /\ chunkSize = 1 /\ shuffle_radius = 0
    /\ pending = <<>> /\ uniqueChars = {" "} /\ processed = <<>>
    /\ startAt = 0 /\ state = 0
    /\ last = [op |-> "none", force |-> FALSE, sanitized |-> <<>>, n |-> 0,
               ret |-> <<>>, chunks |-> <<>>, cursor |-> 0, pre |-> NewBuf]
    /\ committedLog = <<>> /\ shiftedLog = <<>>

\* shifts counts the shift calls made since the last write (or construction)
\* and base is the ring as that write left it
RingCall(op, index, items, ret) ==
    [NoRingCall EXCEPT !.op = op, !.size = RingBuffer_size(ring), !.index = index,
                       !.items = items, !.ret = ret, !.pre = ring]

\* new RingBuffer(size): the object exists only when the constructor returned
InitRing ==
    /\ IdleBuffer /\ IdleSanitize /\ other = NewBuf /\ drv = NoDriver
    /\ \E size \in -1..MaxRingSize :
          /\ ring = IF RingBuffer_throws(size) THEN NoRing ELSE RingBuffer_new(size)
          /\ rlast = [NoRingCall EXCEPT !.op = "new", !.size = size,
                                        !.thrown = RingBuffer_throws(size),
                                        !.base = ring]

RingExists == ~rlast.thrown

RingPush ==
    /\ RingExists
    /\ \E items \in SeqsUpTo(RingItems, RingBuffer_size(ring)) :
          /\ ring' = RingBuffer_push(ring, items)
          /\ rlast' = [RingCall("push", 0, items, <<>>) EXCEPT !.base = ring']
    /\ UNCHANGED <<bufferVars, other, san, drv, shf, run, llm>>

RingShift ==
    /\ RingExists
    /\ rlast.shifts <= RingBuffer_size(ring)
    /\ ring' = RingBuffer_shift(ring)
    /\ rlast' = [RingCall("shift", 0, <<>>, RingBuffer_shiftResult(ring))
                    EXCEPT !.shifts = rlast.shifts + 1, !.base = rlast.base]
    /\ UNCHANGED <<bufferVars, other, san, drv, shf, run, llm>>

RingGet ==
    /\ RingExists
    /\ \E index \in 0..(RingBuffer_size(ring) - 1) :
          rlast' = [RingCall("get", index, <<>>, RingBuffer_get(ring, index))
                       EXCEPT !.shifts = rlast.shifts, !.base = rlast.base]
    /\ UNCHANGED <<bufferVars, ring, other, san, drv, shf, run, llm>>

RingSet ==
    /\ RingExists
    /\ \E index \in 0..(RingBuffer_size(ring) - 1),
          items \in SeqsUpTo(RingItems, RingBuffer_size(ring)) :
          /\ ring' = RingBuffer_set(ring, index, items)
          /\ rlast' = [RingCall("set", index, items, <<>>) EXCEPT !.base = ring']
    /\ UNCHANGED <<bufferVars, other, san, drv, shf, run, llm>>

NextRing == RingPush \/ RingShift \/ RingGet \/ RingSet

SpecRing == InitRing /\ [][NextRing]_vars

\* =========================================================== SpiralSlotRing
\* src/src/text-stream-buffer.ts, lines 226-274: a RingBuffer<CharSlot> built on
\* a TextStreamBuffer (this.textBuffer, the buffer of the state variables).
\* A slot argument is <<>> for null / undefined and <<slot>> otherwise.
MaxSyncState == 2

Min(a, b) == IF a <= b THEN a ELSE b
Max(a, b) == IF a >= b THEN a ELSE b

\* createBlankSlot()
createBlankSlot == [index |-> -1, char |-> " ", readableDelta |-> 0]

\* slot ?? this.createBlankSlot()
OrBlank(slot) == IF slot = <<>> THEN createBlankSlot ELSE slot[1]

\* mutant: the oldest slot is not evicted
SpiralSlotRing_advance_NoShift(r, slot) ==
    RingBuffer_set(r, RingBuffer_size(r) - 1, <<OrBlank(slot)>>)

\* advance(slot): this.shift(); this.set(this.size - 1, slot ?? blank)
SpiralSlotRing_advance(r, slot) ==
    RingBuffer_set(RingBuffer_shift(r), RingBuffer_size(r) - 1, <<OrBlank(slot)>>)

\* Math.max(0, slots.length - startAt)
available(textBuffer) == Max(0, Len(textBuffer.processed) - textBuffer.startAt)

\* mutant: the real slots come first and the blanks after them
Fill_Leading(size, textBuffer) ==
    LET a == available(textBuffer)
    IN  [i \in 1..size |-> IF i <= Min(a, size)
                           THEN textBuffer.processed[textBuffer.startAt + i]
                           ELSE createBlankSlot]

\* the fill array of syncFromTextBuffer: all blanks, left-padded, or the first
\* size unconsumed slots
Fill(size, textBuffer) ==
    LET a       == available(textBuffer)
        padding == size - a
    IN  IF a = 0 THEN [i \in 1..size |-> createBlankSlot]
        ELSE IF a < size
        THEN [i \in 1..size |->
                 IF i <= padding THEN createBlankSlot
                 ELSE textBuffer.processed[textBuffer.startAt + (i - padding)]]
        ELSE [i \in 1..size |-> textBuffer.processed[textBuffer.startAt + i]]

\* mutant: only the available slots are written
syncFromTextBuffer_NoPadding(r, textBuffer) ==
    RingBuffer_set(r, 0, SubSeq(textBuffer.processed, textBuffer.startAt + 1,
                                textBuffer.startAt + Min(available(textBuffer),
                                                         RingBuffer_size(r))))

\* syncFromTextBuffer(textBuffer): the ring after this.set(0, ...fill)
syncFromTextBuffer(r, textBuffer) ==
    RingBuffer_set(r, 0, Fill(RingBuffer_size(r), textBuffer))

\* mutant: the sync consumes nothing
syncAdvance_None(r, textBuffer) == 0

\* the argument of this.textBuffer.advance(Math.min(available, this.size))
syncAdvance(r, textBuffer) == Min(available(textBuffer), RingBuffer_size(r))

\* the unprimed counterpart of SetBuf
BufferIs(b) ==
    /\ pending = b.pending
    /\ uniqueChars = b.uniqueChars
    /\ processed = b.processed
    /\ startAt = b.startAt
    /\ state = b.state

\* the parts of the state the window's operations leave alone; the records
\* last, committedLog and shiftedLog are not kept here
windowFrame == <<variant, chunkSize, shuffle_radius, last, committedLog, shiftedLog,
                 other, san, drv, shf, run, llm>>

WindowCall(op, arg, slot, post) ==
    [NoRingCall EXCEPT !.op = op, !.size = RingBuffer_size(ring), !.items = slot,
                       !.pre = ring, !.arg = arg, !.preMain = Buf, !.post = post]

\* new SpiralSlotRing(size, textBuffer): super(size), then the first sync, which
\* advances textBuffer. `other` is a second buffer that was given otherText.
\* Both buffers are of the second version (the one whose advance the window
\* calls), without jitter: the window never reads readableDelta.
InitWindow ==
    /\ variant = "chunk"
    /\ chunkSize \in 1..MaxChunkSize
    /\ shuffle_radius = 0
    /\ IdleSanitize /\ drv = NoDriver
    /\ last = [op |-> "none", force |-> FALSE, sanitized |-> <<>>, n |-> 0,
               ret |-> <<>>, chunks |-> <<>>, cursor |-> 0, pre |-> NewBuf]
    /\ committedLog = <<>> /\ shiftedLog = <<>>
    /\ \E initialText \in RawInputs, otherText \in RawInputs, size \in 1..MaxRingSize :
         \E orders \in ChunkOrders(NewBuf, sanitizeText(initialText), TRUE),
            otherOrders \in ChunkOrders(NewBuf, sanitizeText(otherText), TRUE) :
            LET b0 == append(NewBuf, initialText, TRUE, orders)
                r0 == RingBuffer_new(size)
                b1 == advance(b0, syncAdvance(r0, b0))
            IN  /\ BufferIs(b1)
                /\ other = append(NewBuf, otherText, TRUE, otherOrders)
                /\ ring = syncFromTextBuffer(r0, b0)
                /\ rlast = [NoRingCall EXCEPT !.op = "new", !.size = size, !.pre = r0,
                                              !.arg = "main", !.preMain = b0,
                                              !.post = b1]

\* textBuffer.append(chunk, force) on the window's buffer
WindowAppend ==
    /\ state < MaxSyncState
    /\ \E chunk \in RawInputs, force \in BOOLEAN :
          /\ Len(processed) + Len(pending) + Len(sanitizeText(chunk)) <= MaxTotal
          /\ \E orders \in ChunkOrders(Buf, sanitizeText(chunk), force) :
                SetBuf(append(Buf, chunk, force, orders))
    /\ UNCHANGED <<ring, rlast, windowFrame>>

\* syncFromTextBuffer(textBuffer) with the window's own buffer or another one
WindowSync ==
    /\ state < MaxSyncState
    /\ \E arg \in {"main", "other"} :
          LET textBuffer == IF arg = "main" THEN Buf ELSE other
              n          == syncAdvance(ring, textBuffer)
          IN  /\ ring' = syncFromTextBuffer(ring, textBuffer)
              /\ SetBuf(advance(Buf, n))
              /\ rlast' = WindowCall("sync", arg, <<>>,
                                     IF arg = "main" THEN advance(Buf, n) ELSE other)
    /\ UNCHANGED windowFrame

\* the driver's step: slot = textBuffer.shift(); slotRing.advance(slot)
WindowTick ==
    /\ SetBuf(shift(Buf))
    /\ ring' = SpiralSlotRing_advance(ring, shiftResult(Buf))
    /\ rlast' = WindowCall("advance", "none", shiftResult(Buf), shift(Buf))
    /\ UNCHANGED windowFrame

\* advance with no slot
WindowAdvance ==
    /\ ring' = SpiralSlotRing_advance(ring, <<>>)
    /\ rlast' = WindowCall("advance", "none", <<>>, Buf)
    /\ UNCHANGED <<pending, uniqueChars, processed, startAt, state, windowFrame>>

NextWindow == WindowAppend \/ WindowSync \/ WindowTick \/ WindowAdvance

SpecWindow == InitWindow /\ [][NextWindow]_vars

\* ============================================================ one raw chunk
\* a raw string over every class of character, put through sanitizeText once
\* and twice, or appended to a buffer
MaxSanLen == 3

SanChars == {"a", "7", " ", "\t", "!"}

SanInputs == SeqsUpTo(SanChars, MaxSanLen)

InitSanitize ==
    /\ InitBuffer /\ IdleWindow
    /\ shf = NoShuffle /\ IdleCalls
    /\ \E input \in SanInputs : san = [NoSanitize EXCEPT !.input = input]

\* sanitizeText(input)
SanitizeOnce ==
    /\ san.stage = 0
    /\ san' = [san EXCEPT !.once = sanitizeText(san.input), !.stage = 1]
    /\ UNCHANGED <<bufferVars, ring, rlast, other, drv, shf, run, llm>>

\* sanitizeText(sanitizeText(input))
SanitizeTwice ==
    /\ san.stage = 1
    /\ san' = [san EXCEPT !.twice = sanitizeText(san.once), !.stage = 2]
    /\ UNCHANGED <<bufferVars, ring, rlast, other, drv, shf, run, llm>>

\* append(input, force) on the buffer
SanitizeAppend ==
    /\ san.stage = 0
    /\ \E force \in BOOLEAN :
          LET s == sanitizeText(san.input) IN
          /\ Len(committedLog) + Len(pending) + Len(s) <= MaxTotal
          /\ \E orders \in ChunkOrders(Buf, s, force) :
                /\ SetBuf(append(Buf, san.input, force, orders))
                /\ last' = AppendRecord(Buf, s, force, orders)
                /\ committedLog' = committedLog \o
                                      SubSeq(pending \o s, 1, CommitLen(Buf, s, force))
    /\ san' = [san EXCEPT !.stage = 3]
    /\ UNCHANGED <<variant, chunkSize, shuffle_radius, shiftedLog, ring, rlast, other,
                   drv, shf, run, llm>>

NextSanitize == SanitizeOnce \/ SanitizeTwice \/ SanitizeAppend

SpecSanitize == InitSanitize /\ [][NextSanitize]_vars

\* ========================================================= SpiralController
\* src/src/spiral3.ts: the controller builds the window on its buffer
\* (line 110) and on each step of updateSpiral (lines 168-170) shifts the
\* buffer, advances the window and writes the revealed letter. drv keeps what
\* the controller wrote and two histories: the slots committed by the buffer
\* and the non-blank slots that entered the window.
IsCommittedSlot(slot) == slot.index # -1

\* no letter written
NoLetter == [char |-> <<>>, readableDelta |-> <<>>]

\* updateLetterAt(slotIndex, slot): the character is slot?.char ?? ' ', the
\* delta is slot.readableDelta, which raises a TypeError on a null slot after
\* the glyph was written
updateLetterAt_Raises(slot) == slot = <<>>

updateLetterAt(slot) ==
    [char          |-> IF slot = <<>> THEN <<" ">> ELSE <<slot[1].char>>,
     readableDelta |-> IF slot = <<>> THEN <<>> ELSE <<slot[1].readableDelta>>]

\* the slots one append commits on buffer b
NewSlots(b, chunk, force, orders) ==
    Slice(append(b, chunk, force, orders).processed, Len(b.processed))

driverFrame == <<variant, chunkSize, shuffle_radius, last, committedLog, shiftedLog,
                 other, san, shf, run, llm>>

\* new TextStreamBuffer(initialText, chunkSize), then
\* new SpiralSlotRing(size, textBuffer)
InitDriver ==
    /\ variant = "chunk"
    /\ chunkSize \in 1..MaxChunkSize
    /\ shuffle_radius \in {0, MaxShuffleRadius}
    /\ IdleSanitize
    /\ last = [op |-> "none", force |-> FALSE, sanitized |-> <<>>, n |-> 0,
               ret |-> <<>>, chunks |-> <<>>, cursor |-> 0, pre |-> NewBuf]
    /\ committedLog = <<>> /\ shiftedLog = <<>>
    /\ other = NewBuf
    /\ \E initialText \in RawInputs, size \in 1..MaxRingSize :
         \E orders \in ChunkOrders(NewBuf, sanitizeText(initialText), TRUE) :
            LET b0 == append(NewBuf, initialText, TRUE, orders)
                r0 == RingBuffer_new(size)
                b1 == advance(b0, syncAdvance(r0, b0))
            IN  /\ BufferIs(b1)
                /\ ring = syncFromTextBuffer(r0, b0)
                /\ rlast = [NoRingCall EXCEPT !.op = "new", !.size = size, !.pre = r0,
                                              !.arg = "main", !.preMain = b0,
                                              !.post = b1]
                /\ drv = [entered   |-> SelectSeq(Fill(size, b0), IsCommittedSlot),
                          committed |-> b0.processed,
                          letter    |-> NoLetter,
                          raised    |-> FALSE]

\* the stream client: textBuffer.append(chunk, force)
DriverAppend ==
    /\ \E chunk \in RawInputs, force \in BOOLEAN :
          /\ Len(drv.committed) + Len(pending) + Len(sanitizeText(chunk)) <= MaxTotal
          /\ \E orders \in ChunkOrders(Buf, sanitizeText(chunk), force) :
                /\ SetBuf(append(Buf, chunk, force, orders))
                /\ drv' = [drv EXCEPT !.committed = @ \o NewSlots(Buf, chunk, force, orders)]
    /\ UNCHANGED <<ring, rlast, driverFrame>>

\* one step of updateSpiral: slot = textBuffer.shift(); slotRing.advance(slot);
\* updateLetterAt(slotIndex, slot)
DriverTick ==
    /\ SetBuf(shift(Buf))
    /\ ring' = SpiralSlotRing_advance(ring, shiftResult(Buf))
    /\ rlast' = WindowCall("advance", "none", shiftResult(Buf), shift(Buf))
    /\ drv' = [drv EXCEPT !.entered = @ \o shiftResult(Buf),
                          !.letter  = updateLetterAt(shiftResult(Buf)),
                          !.raised  = updateLetterAt_Raises(shiftResult(Buf))]
    /\ UNCHANGED driverFrame

NextDriver == DriverAppend \/ DriverTick

SpecDriver == InitDriver /\ [][NextDriver]_vars

\* ======================================================= one committed chunk
\* the shuffle of append (lines 195-213) on one chunk of M characters under one
\* outcome of the jitter draws
MaxJitterRadius == 2
MaxShuffleLen == 6

InitShuffle ==
    /\ IdleBuffer /\ IdleWindow /\ san = NoSanitize /\ IdleCalls
    /\ \E radius \in 0..MaxJitterRadius, M \in 0..MaxShuffleLen :
          \E jit \in [1..M -> JitterValues(radius)] :
             shf = [radius |-> radius, jit |-> jit, slots |-> <<>>, stage |-> 0]

\* the chunk is committed: sort by jitter key, record readableDelta, sort back
ShuffleCommit ==
    /\ shf.stage = 0
    /\ shf' = [shf EXCEPT
                 !.slots = CommitChunk([i \in 1..Len(shf.jit) |-> "A"],
                                       JitterOrder(Len(shf.jit), shf.jit)),
                 !.stage = 1]
    /\ UNCHANGED <<bufferVars, ring, rlast, other, san, drv, run, llm>>

NextShuffle == ShuffleCommit

SpecShuffle == InitShuffle /\ [][NextShuffle]_vars

\* ============================================== append, one step at a time
\* src/src/text-stream-buffer.ts, lines 127-130 and 177-221: the constructor's
\* append and later ones of the fixed-chunk-size version, with the commit loop
\* taken one iteration at a time, for every chunkSize >= 0.
MaxCalls == 3

\* the loop counter is a double: past 2^53 i++ leaves it unchanged. MaxCounter
\* stands for that value; it is above every finite number of chunks.
MaxCounter == 4

\* Math.floor(n / 0) for n > 0
Infinity == -1

\* Math.floor(this.pending.length / this.chunkSize), pending not empty
LoopChunks(len, size) == IF size = 0 THEN Infinity ELSE len \div size

\* i < chunks
LoopTest(i, chunks) == chunks = Infinity \/ i < chunks

\* i++
Increment(i) == IF i < MaxCounter THEN i + 1 ELSE i

InitLoop ==
    /\ variant = "chunk"
    /\ chunkSize \in 0..MaxChunkSize
    /\ shuffle_radius = 0
    /\ pending = <<>> /\ uniqueChars = {" "} /\ processed = <<>>
    /\ startAt = 0 /\ state = 0
    /\ last = [op |-> "none", force |-> FALSE, sanitized |-> <<>>, n |-> 0,
               ret |-> <<>>, chunks |-> <<>>, cursor |-> 0, pre |-> NewBuf]
    /\ committedLog = <<>> /\ shiftedLog = <<>>
    /\ IdleWindow /\ san = NoSanitize /\ shf = NoShuffle
    /\ run = NoRun /\ llm = NoLlm

loopFrame == <<variant, chunkSize, shuffle_radius, startAt, last, committedLog,
               shiftedLog, ring, rlast, other, san, drv, shf, llm>>

\* append(chunk, force) up to the loop: the first call is the constructor's,
\* which forces
LoopCall ==
    /\ run.pc \in {"idle", "done"}
    /\ run.calls < MaxCalls
    /\ \E chunk \in RawInputs, force \in BOOLEAN :
          LET sanitized == sanitizeText(chunk)
              p         == pending \o sanitized
          IN  /\ run.calls = 0 => force
              /\ Len(processed) + Len(p) <= MaxTotal
              /\ IF sanitized = <<>>
                 THEN /\ run' = [run EXCEPT !.pc = "done", !.force = force,
                                            !.calls = @ + 1]
                      /\ UNCHANGED <<pending, uniqueChars>>
                 ELSE /\ uniqueChars' = uniqueChars \cup Range(sanitized)
                      /\ pending' = p
                      /\ run' = IF Len(p) >= chunkSize \/ force
                                THEN [pc |-> "loop", i |-> 0,
                                      chunks |-> LoopChunks(Len(p), chunkSize),
                                      force |-> force, calls |-> run.calls + 1]
                                ELSE [run EXCEPT !.pc = "done", !.force = force,
                                                 !.calls = @ + 1]
    /\ UNCHANGED <<processed, state, loopFrame>>

\* one iteration of the commit loop
LoopStep ==
    /\ run.pc = "loop"
    /\ LoopTest(run.i, run.chunks)
    /\ \E order \in ShuffleOrders[shuffle_radius][Len(ChunkAt(pending, run.i))] :
          processed' = processed \o CommitChunk(ChunkAt(pending, run.i), order)
    /\ run' = [run EXCEPT !.i = Increment(@)]
    /\ UNCHANGED <<pending, uniqueChars, state, loopFrame>>

\* the loop is left: the remainder stays pending, state++
LoopExit ==
    /\ run.pc = "loop"
    /\ ~LoopTest(run.i, run.chunks)
    /\ pending' = Slice(pending, run.chunks * chunkSize)
    /\ state' = state + 1
    /\ run' = [run EXCEPT !.pc = "done"]
    /\ UNCHANGED <<uniqueChars, processed, loopFrame>>

NextLoop == LoopCall \/ LoopStep \/ LoopExit

\* a call runs to completion once made: the loop is synchronous code
SpecLoop ==
    InitLoop /\ [][NextLoop]_vars /\ WF_vars(LoopStep) /\ WF_vars(LoopExit)

\* ============================================================ LlmTextStream
\* src/unnamed/part_007, lines 105-225. llm.length is this.buffer.length,
\* llm.timers the timeouts (id and delay) set with window.setTimeout and
\* neither fired nor cleared, llm.requests the number of streamOnce calls that have not yet
\* reached their finally block; pendingRetry is a timer id, 0 for null.
\* A timer fires at any time after it is set.
MaxLlmLength == 4
MaxThreshold == 3
MaxTimers == 3

TimerIds == 1..MaxTimers

\* window.setTimeout returns an id no live timer has
LiveIds(l) == {t.id : t \in l.timers}

FreshTimer(l) == CHOOSE id \in TimerIds : id \notin LiveIds(l) \cup {l.pendingRetry}

\* window.clearTimeout(id)
clearTimeout(l, id) == [l EXCEPT !.timers = {t \in @ : t.id # id}]

\* scheduleRetry(delayMs)
scheduleRetry(l, delayMs) ==
    LET c == IF l.pendingRetry # 0 THEN clearTimeout(l, l.pendingRetry) ELSE l
    IN  [c EXCEPT !.timers = @ \cup {[id |-> FreshTimer(c), delay |-> delayMs]},
                  !.pendingRetry = FreshTimer(c)]

\* streamOnce() up to its first await: the flag is set and the fetch is issued
streamOnce(l) == [l EXCEPT !.streaming = TRUE, !.requests = @ + 1]

\* mutant: a request is issued even while one is streaming
ensureStreaming_NoGuard(l) ==
    IF l.length >= l.refillThreshold THEN l ELSE streamOnce(l)

\* ensureStreaming()
ensureStreaming(l) ==
    IF l.streaming THEN l
    ELSE IF l.length >= l.refillThreshold THEN l
    ELSE streamOnce(l)

\* the finally block of streamOnce
streamFinally(l) ==
    LET f == [l EXCEPT !.streaming = FALSE, !.requests = @ - 1]
    IN  IF f.length < f.refillThreshold THEN scheduleRetry(f, 500) ELSE f

\* the catch block of streamOnce: onError, scheduleRetry(2000)
streamCatch(l) == scheduleRetry(l, 2000)

\* the timeout callback: this.pendingRetry = null; this.ensureStreaming()
retryCallback(l, id) ==
    ensureStreaming([clearTimeout(l, id) EXCEPT !.pendingRetry = 0])

llmFrame == <<bufferVars, ring, rlast, other, san, drv, shf, run>>

\* new LlmTextStream(buffer, config, callbacks) on a buffer of some length
InitLlm ==
    /\ IdleBuffer /\ IdleWindow /\ san = NoSanitize /\ shf = NoShuffle
    /\ run = NoRun
    /\ \E len \in 0..MaxLlmLength, threshold \in 0..MaxThreshold :
          llm = [NoLlm EXCEPT !.length = len, !.refillThreshold = threshold]

\* start()
LlmStart ==
    /\ llm' = [ensureStreaming(llm) EXCEPT !.started = TRUE]
    /\ UNCHANGED llmFrame

\* a retry timer fires
LlmTimer ==
    /\ \E id \in LiveIds(llm) : llm' = retryCallback(llm, id)
    /\ UNCHANGED llmFrame

\* consumeSseStream reads a chunk: this.buffer.append(delta) commits it or
\* keeps it pending
LlmData ==
    /\ llm.requests > 0
    /\ llm.length < MaxLlmLength
    /\ \E grown \in 0..1 : llm' = [llm EXCEPT !.length = @ + grown]
    /\ UNCHANGED llmFrame

\* the stream ends: the try block completes, then finally
LlmComplete ==
    /\ llm.requests > 0
    /\ Cardinality(llm.timers) < MaxTimers
    /\ llm' = streamFinally(llm)
    /\ UNCHANGED llmFrame

\* fetch rejects, the response is not ok or a read fails: catch, then finally
LlmFail ==
    /\ llm.requests > 0
    /\ Cardinality(llm.timers) < MaxTimers - 1
    /\ llm' = streamFinally(streamCatch(llm))
    /\ UNCHANGED llmFrame

\* the consumer takes a slot: this.buffer.shift()
LlmDrain ==
    /\ llm.length > 0
    /\ llm' = [llm EXCEPT !.length = @ - 1]
    /\ UNCHANGED llmFrame

NextLlm == LlmStart \/ LlmTimer \/ LlmData \/ LlmComplete \/ LlmFail \/ LlmDrain

SpecLlm == InitLlm /\ [][NextLlm]_vars

\* ================================================================== claims

\* the displaced ranks index + readableDelta of a chunk's slots
DisplacedRanks(c) == {c[k].index + c[k].readableDelta : k \in 1..Len(c)}

\* C1: for every chunk committed by append, of any size M and under any jitter,
\* the values index + readableDelta over its M slots are exactly 0..M-1, each
\* occurring once.
C1_ShuffleIsBijection ==
    \A i \in 1..Len(last.chunks) :
        LET c == last.chunks[i]
        IN  /\ DisplacedRanks(c) = 0..(Len(c) - 1)
            /\ \A j, k \in 1..Len(c) :
                  j # k => c[j].index + c[j].readableDelta # c[k].index + c[k].readableDelta

\* a chunk of three characters was committed with a shuffle that moved a character
C1_Witness ==
    /\ last.op \in {"new", "append"}
    /\ \E i \in 1..Len(last.chunks) :
          /\ Len(last.chunks[i]) = 3
          /\ \E k \in 1..3 : last.chunks[i][k].readableDelta # 0

\* C2: every committed chunk is stored in natural reading order whatever the
\* jitter: its slots carry index 0..M-1 in that order, their chars are the
\* chunk's sanitized characters, and chunks are appended to processed in commit
\* order (processed always holds the most recently committed characters, in
\* commit order).
C2_NaturalOrder ==
    /\ last.op \in {"new", "append"} =>
          /\ \A i \in 1..Len(last.chunks) :
                \A k \in 1..Len(last.chunks[i]) : last.chunks[i][k].index = k - 1
          /\ Chars(Flatten(last.chunks)) =
                SubSeq(last.pre.pending \o last.sanitized, 1, Len(Flatten(last.chunks)))
          /\ processed = last.pre.processed \o Flatten(last.chunks)
    /\ Len(processed) <= Len(committedLog)
    /\ Chars(processed) =
          SubSeq(committedLog, Len(committedLog) - Len(processed) + 1, Len(committedLog))

\* a shuffled chunk of distinct characters was appended behind earlier slots
C2_Witness ==
    /\ last.op = "append"
    /\ Len(last.pre.processed) > 0
    /\ \E i \in 1..Len(last.chunks) :
          /\ Len(last.chunks[i]) >= 2
          /\ last.chunks[i][1].char # last.chunks[i][2].char
          /\ last.chunks[i][1].readableDelta # 0

\* C3: for any interleaving of append and shift calls, the chars returned by
\* shift, in call order, followed by the current text, are the committed
\* characters in commit order, also across compactions.
C3_StreamPreserved == shiftedLog \o text(Buf) = committedLog

\* a shift compacted the buffer, characters were returned and one is left
C3_Witness ==
    /\ last.op = "shift"
    /\ last.cursor > chunkSize
    /\ Len(shiftedLog) >= 2
    /\ Len(text(Buf)) >= 1
    /\ shiftedLog # text(Buf)

\* C4: after any sequence of append, shift and advance(n) calls,
\* 0 <= startAt <= processed.length.
C4_CursorInRange == 0 <= startAt /\ startAt <= Len(processed)

\* the buffer just after the cursor move of the last call, before compaction
Moved == [last.pre EXCEPT !.startAt = last.cursor]

\* C5: whenever shift or advance compacts, text and length just after the cursor
\* move equal text and length after the compaction.
C5_CompactionTransparent ==
    (last.op \in {"shift", "advance"} /\ last.cursor > chunkSize) =>
        /\ text(Buf) = text(Moved)
        /\ length(Buf) = length(Moved)

\* C6: a forced append whose sanitized text is non-empty leaves pending empty.
C6_ForceDrainsPending ==
    (last.op \in {"new", "append"} /\ last.force /\ last.sanitized # <<>>) =>
        pending = <<>>

\* C7: when startAt < processed.length - 1, shift returns processed[startAt],
\* length drops by one and text loses its first character, with or without
\* compaction.
C7_ShiftPopsOldest ==
    (last.op = "shift" /\ last.pre.startAt < Len(last.pre.processed) - 1) =>
        /\ last.ret = <<last.pre.processed[last.pre.startAt + 1]>>
        /\ length(Buf) = length(last.pre) - 1
        /\ text(Buf) = Tail(text(last.pre))

\* a shift that returned a slot and compacted
C7_Witness ==
    /\ last.op = "shift"
    /\ last.ret # <<>>
    /\ last.cursor > chunkSize
    /\ startAt = 0
    /\ Len(processed) < Len(last.pre.processed)

\* C8: shift with startAt >= processed.length - 1 returns null and advance(n)
\* with startAt >= processed.length does nothing; both leave processed, startAt,
\* pending, uniqueChars and state unchanged.
C8_ExhaustionIsNoOp ==
    /\ (last.op = "shift" /\ last.pre.startAt >= Len(last.pre.processed) - 1) =>
          (last.ret = <<>> /\ Buf = last.pre)
    /\ (last.op = "advance" /\ last.pre.startAt >= Len(last.pre.processed)) =>
          Buf = last.pre

\* shift was called with exactly one unconsumed slot left
C8_Witness ==
    /\ last.op = "shift"
    /\ Len(last.pre.processed) >= 2
    /\ last.pre.startAt = Len(last.pre.processed) - 1

\* C9: every call that changes pending, processed, startAt or uniqueChars
\* leaves state strictly greater, state never decreases, and every append with
\* non-empty sanitized text increments state.
C9_StateBumpedOnMutation ==
    /\ state >= last.pre.state
    /\ [Buf EXCEPT !.state = 0] # [last.pre EXCEPT !.state = 0] => state > last.pre.state
    /\ (last.op = "append" /\ last.sanitized # <<>>) => state > last.pre.state

\* C10: append never changes startAt nor the slots already in processed; it
\* only adds slots at the tail.
C10_AppendOnlyGrowsTail ==
    last.op = "append" =>
        /\ startAt = last.pre.startAt
        /\ Len(processed) >= Len(last.pre.processed)
        /\ SubSeq(processed, 1, Len(last.pre.processed)) = last.pre.processed

\* an append committed slots behind a partly consumed, non-empty processed
C10_Witness ==
    /\ last.op = "append"
    /\ startAt > 0
    /\ Len(last.pre.processed) > 0
    /\ Len(processed) > Len(last.pre.processed)

\* C11: shift and advance never change pending or uniqueChars, and never alter,
\* drop or reorder a slot that is still unconsumed after the call: what they
\* remove from processed is a prefix lying before the cursor.
C11_DrainKeepsUnconsumed ==
    last.op \in {"shift", "advance"} =>
        /\ pending = last.pre.pending
        /\ uniqueChars = last.pre.uniqueChars
        /\ Slice(processed, startAt) = Slice(last.pre.processed, last.cursor)
        /\ Len(last.pre.processed) - Len(processed) \in 0..last.cursor
        /\ processed = Slice(last.pre.processed, Len(last.pre.processed) - Len(processed))

\* a shift compacted away consumed slots and left an unconsumed one
C11_Witness ==
    /\ last.op = "shift"
    /\ last.cursor > chunkSize
    /\ Len(processed) >= 1
    /\ Len(processed) < Len(last.pre.processed)
    /\ "A" \in uniqueChars

\* C19: new RingBuffer(size) raises for every size <= 0 and, for every integer
\* size >= 1, succeeds with capacity exactly size.
C19_ConstructorChecksSize ==
    rlast.op = "new" =>
        /\ rlast.size <= 0 => rlast.thrown
        /\ rlast.size >= 1 => ~rlast.thrown /\ RingBuffer_size(ring) = rlast.size

\* a constructor call that raised
C19_Witness == rlast.op = "new" /\ rlast.size = 0 /\ rlast.thrown

\* C20: at any origin, push of exactly size items makes get(i) return the i-th
\* pushed item for every i in [0, size).
C20_PushRoundTrip ==
    (rlast.op = "push" /\ Len(rlast.items) = RingBuffer_size(ring)) =>
        \A i \in 0..(RingBuffer_size(ring) - 1) :
            RingBuffer_get(ring, i) = <<rlast.items[i + 1]>>

\* a full push of distinct items at a shifted origin
C20_Witness ==
    /\ rlast.op = "push"
    /\ Len(rlast.items) = RingBuffer_size(ring)
    /\ ring.start > 0
    /\ rlast.items[1] # rlast.items[2]

\* the buffer passed to the most recent syncFromTextBuffer, as it was before
SyncedBuffer == IF rlast.arg = "main" THEN rlast.preMain ELSE other

\* C12: right after syncFromTextBuffer(buffer) on a window of capacity N, at
\* any origin, with a the buffer's unconsumed slot count before the call and
\* m = min(a, N): get(i) is a blank sentinel for every i < N - m, and
\* get(N - m + j) is the buffer's j-th unconsumed slot for every 0 <= j < m.
C12_SyncFillsWindow ==
    rlast.op \in {"new", "sync"} =>
        LET N == RingBuffer_size(ring)
            a == Len(Slice(SyncedBuffer.processed, SyncedBuffer.startAt))
            m == Min(a, N)
        IN  /\ \A i \in 0..(N - m - 1) : RingBuffer_get(ring, i) = <<createBlankSlot>>
            /\ \A j \in 0..(m - 1) :
                  RingBuffer_get(ring, N - m + j) =
                      <<SyncedBuffer.processed[SyncedBuffer.startAt + j + 1]>>

\* a sync at a moved origin that pads: one real slot behind one blank
C12_Witness ==
    /\ rlast.op = "sync"
    /\ rlast.pre.start > 0
    /\ RingBuffer_size(ring) = 2
    /\ Len(Slice(SyncedBuffer.processed, SyncedBuffer.startAt)) = 1
    /\ RingBuffer_get(ring, 1)[1].index >= 0

\* C13: syncFromTextBuffer(buffer) advances the cursor of the buffer passed by
\* min(available, N): that buffer's length drops by it and the copied slots lie
\* behind its cursor afterwards, whichever buffer is passed.
C13_SyncConsumesArgument ==
    rlast.op \in {"new", "sync"} =>
        LET m == syncAdvance(rlast.pre, SyncedBuffer)
        IN  /\ length(rlast.post) = length(SyncedBuffer) - m
            /\ Slice(rlast.post.processed, rlast.post.startAt) =
                  Slice(SyncedBuffer.processed, SyncedBuffer.startAt + m)

\* C14: after advance(slot) on a window of capacity N, get(N-1) is slot (a
\* blank sentinel when slot is absent or null), get(i) is the previous get(i+1)
\* for 0 <= i < N-1, and the entry that was get(0) is gone: its cell is the one
\* get(N-1) now reads.
C14_AdvanceSlidesWindow ==
    rlast.op = "advance" =>
        LET N == RingBuffer_size(ring)
        IN  /\ RingBuffer_get(ring, N - 1) = <<OrBlank(rlast.items)>>
            /\ \A i \in 0..(N - 2) :
                  RingBuffer_get(ring, i) = RingBuffer_get(rlast.pre, i + 1)
            /\ (ring.start + N - 1) % N = rlast.pre.start
            /\ \A i \in 0..(N - 2) : (ring.start + i) % N # rlast.pre.start

\* an advance with a real slot pushed a different slot out of a window of two
C14_Witness ==
    /\ rlast.op = "advance"
    /\ rlast.items # <<>>
    /\ RingBuffer_size(ring) = 2
    /\ RingBuffer_get(rlast.pre, 0) # RingBuffer_get(ring, 1)
    /\ RingBuffer_get(rlast.pre, 0) # RingBuffer_get(ring, 0)

\* the slots a window call can have taken from a buffer
SourceSlots == Range(rlast.preMain.processed) \cup Range(other.processed)

\* C15: from the end of construction on, every window position holds a blank
\* sentinel or a slot committed by a text buffer (one the window held before
\* the last call, or one that call took from a buffer's processed); it is never
\* an empty cell.
C15_WindowAlwaysFilled ==
    \A i \in 0..(RingBuffer_size(ring) - 1) :
        LET c == RingBuffer_get(ring, i)
        IN  /\ c # <<>>
            /\ \/ c[1] = createBlankSlot
               \/ c[1].index >= 0 /\ c[1] \in SourceSlots
               \/ c[1].index >= 0 /\ \E k \in 1..Len(rlast.pre.buffer) : rlast.pre.buffer[k] = c

\* a window of two holding a committed slot next to a blank after a tick
C15_Witness ==
    /\ rlast.op = "advance"
    /\ RingBuffer_size(ring) = 2
    /\ RingBuffer_get(ring, 0) = <<createBlankSlot>>
    /\ RingBuffer_get(ring, 1) # <<createBlankSlot>>

\* C16: sanitization is idempotent: for every input string,
\* sanitizeText(sanitizeText(x)) equals sanitizeText(x).
C16_SanitizeIdempotent == san.stage = 2 => san.twice = san.once

\* C17: append called with an empty or whitespace-only chunk is a silent no-op:
\* pending, processed, startAt, uniqueChars and state are unchanged.
C17_BlankChunkIsNoOp ==
    (san.stage = 3 /\ Range(san.input) \subseteq WhiteSpace) => Buf = last.pre

\* C17 as the code has it: append is a silent no-op exactly when the sanitized
\* text is empty (an empty chunk, or one made only of characters that are
\* stripped); a non-empty whitespace-only chunk sanitizes to one space, which is
\* appended, so the buffer changes.
C17_EmptySanitizedIsNoOp ==
    san.stage = 3 =>
        /\ sanitizeText(san.input) = <<>> => Buf = last.pre
        /\ (san.input # <<>> /\ Range(san.input) \subseteq WhiteSpace) =>
              /\ last.sanitized = <<" ">>
              /\ Buf # last.pre
              /\ Chars(Slice(processed, Len(last.pre.processed))) \o pending =
                    last.pre.pending \o <<" ">>

\* a chunk of stripped characters only was appended to a buffer holding
\* pending text
C17_Witness ==
    /\ san.stage = 3
    /\ san.input # <<>>
    /\ sanitizeText(san.input) = <<>>
    /\ pending # <<>>

\* C18: uniqueChars contains the space character and every character of the
\* sanitized text of every append made so far, committed or still pending, and
\* no operation removes an element from it.
C18_UniqueCharsGrows ==
    /\ " " \in uniqueChars
    /\ Range(committedLog) \cup Range(pending) \subseteq uniqueChars
    /\ last.op \in {"new", "append"} => Range(last.sanitized) \subseteq uniqueChars
    /\ last.pre.uniqueChars \subseteq uniqueChars

\* a character stays in uniqueChars after its slot was compacted away
C18_Witness ==
    /\ "A" \in uniqueChars
    /\ last.op = "shift"
    /\ "A" \notin Range(Chars(processed)) \cup Range(pending)
    /\ "A" \in Range(committedLog)

\* C21: shift returns the element at logical position 0 and moves the origin
\* by one: after n consecutive shifts with no write in between, get(i) returns
\* what get((i + n) mod size) returned before, and the k-th of those shifts
\* returns what was at logical position (k - 1) mod size.
C21_ShiftMovesOrigin ==
    (~rlast.thrown /\ rlast.op \in {"shift", "get"}) =>
        LET size == RingBuffer_size(ring)
            n    == rlast.shifts
        IN  /\ \A i \in 0..(size - 1) :
                  RingBuffer_get(ring, i) = RingBuffer_get(rlast.base, (i + n) % size)
            /\ rlast.op = "shift" =>
                  rlast.ret = RingBuffer_get(rlast.base, (n - 1) % size)

\* more shifts than cells, over two different items: the origin wrapped
C21_Witness ==
    /\ rlast.op = "shift"
    /\ rlast.shifts > RingBuffer_size(ring)
    /\ RingBuffer_size(ring) = 2
    /\ RingBuffer_get(ring, 0) # <<>>
    /\ RingBuffer_get(ring, 1) # <<>>
    /\ RingBuffer_get(ring, 0) # RingBuffer_get(ring, 1)

\* the logical positions set(index, x1..xk) writes
SetPositions == {(rlast.index + j - 1) % RingBuffer_size(ring) : j \in 1..Len(rlast.items)}

\* C22: set(i, x1..xk) with k <= size stores xj at logical position
\* (i + j - 1) mod size, so get of that position returns xj, and it leaves
\* every other logical position unchanged.
C22_SetWritesRelative ==
    (rlast.op = "set" /\ Len(rlast.items) <= RingBuffer_size(ring)) =>
        /\ \A j \in 1..Len(rlast.items) :
              RingBuffer_get(ring, (rlast.index + j - 1) % RingBuffer_size(ring)) =
                  <<rlast.items[j]>>
        /\ \A p \in (0..(RingBuffer_size(ring) - 1)) \ SetPositions :
              RingBuffer_get(ring, p) = RingBuffer_get(rlast.pre, p)

\* a set of one item past a moved origin that wraps and leaves the other cell
C22_Witness ==
    /\ rlast.op = "set"
    /\ RingBuffer_size(ring) = 2
    /\ ring.start = 1
    /\ rlast.index = 1
    /\ Len(rlast.items) = 1
    /\ RingBuffer_get(ring, 0) # <<>>
    /\ RingBuffer_get(ring, 0) # RingBuffer_get(ring, 1)

\* C23: the capacity never changes after construction; push, get and set never
\* change the origin start, only shift does; and 0 <= start < size always.
C23_CapacityAndOriginFrame ==
    (~rlast.thrown /\ rlast.op \in {"new", "push", "shift", "get", "set"}) =>
        /\ RingBuffer_size(ring) = rlast.size
        /\ rlast.op \in {"push", "get", "set"} => ring.start = rlast.pre.start
        /\ ring.start \in 0..(RingBuffer_size(ring) - 1)

\* a push on a full-length ring whose origin a shift had moved
C23_Witness ==
    /\ rlast.op = "push"
    /\ rlast.pre.start > 0
    /\ ring.start = rlast.pre.start
    /\ Len(rlast.items) = 1

\* C24: consuming through shift only, shift never returns the slot that is last
\* in processed at the time of the call, so once a character is committed
\* length stays >= 1; the last slot is returned only after a later commit put
\* slots behind it.
C24_LastSlotStranded ==
    /\ (last.op = "shift" /\ last.ret # <<>>) =>
          /\ last.pre.startAt + 1 < Len(last.pre.processed)
          /\ last.ret[1] = last.pre.processed[last.pre.startAt + 1]
    /\ committedLog # <<>> => length(Buf) >= 1

\* shift returned null with exactly one slot left, after it had returned slots
C24_Witness ==
    /\ last.op = "shift"
    /\ last.ret = <<>>
    /\ length(Buf) = 1
    /\ shiftedLog # <<>>

\* C25: after every shift or advance call, startAt <= chunkSize, and the
\* compaction happens exactly when the cursor move makes startAt strictly
\* greater than chunkSize: then processed loses its first startAt slots and
\* startAt is 0, otherwise processed is untouched.
C25_CompactionThreshold ==
    last.op \in {"shift", "advance"} =>
        /\ startAt <= chunkSize
        /\ last.cursor > chunkSize =>
              startAt = 0 /\ processed = Slice(last.pre.processed, last.cursor)
        /\ last.cursor <= chunkSize =>
              startAt = last.cursor /\ processed = last.pre.processed

\* the cursor reached chunkSize exactly and nothing was compacted
C25_Witness ==
    /\ last.op \in {"shift", "advance"}
    /\ last.cursor = chunkSize
    /\ last.cursor > last.pre.startAt
    /\ startAt = chunkSize
    /\ Len(processed) > startAt

\* C26: under the driver protocol (window built on the buffer, then ticks of
\* shift + advance, interleaved with appends), the non-blank slots that entered
\* the window, in entry order, are a prefix of the committed slots in commit
\* order, and the unconsumed slots are exactly the rest: none enters twice, none
\* is skipped.
C26_WindowEntersInCommitOrder ==
    /\ Len(drv.entered) <= Len(drv.committed)
    /\ drv.entered = SubSeq(drv.committed, 1, Len(drv.entered))
    /\ rlast.op \in {"new", "advance"} =>
          Slice(processed, startAt) =
              SubSeq(drv.committed, Len(drv.entered) + 1, Len(drv.committed))

\* a tick brought a second, different slot into a window primed with the first
C26_Witness ==
    /\ rlast.op = "advance"
    /\ rlast.items # <<>>
    /\ Len(drv.entered) = 2
    /\ drv.entered[1] # drv.entered[2]
    /\ Len(drv.committed) = 3

\* C29: a step of updateSpiral on which textBuffer.shift() returns null
\* completes without raising: a blank sentinel enters the window and the
\* revealed letter is written as a blank character with readableDelta 0.
C29_ExhaustedTickCompletes ==
    (rlast.op = "advance" /\ rlast.items = <<>> /\ drv.letter # NoLetter) =>
        /\ ~drv.raised
        /\ RingBuffer_get(ring, RingBuffer_size(ring) - 1) = <<createBlankSlot>>
        /\ drv.letter = [char |-> <<" ">>, readableDelta |-> <<0>>]

\* C27: append loses, duplicates and reorders no character between pending and
\* processed: after each append (the constructor's included, forced or not)
\* the characters of processed followed by pending are those of before the
\* call followed by the sanitized text of the call; by induction they are the
\* concatenation of the sanitized text of every append.
C27_AppendKeepsEveryCharacter ==
    last.op \in {"new", "append"} =>
        Chars(processed) \o pending =
            Chars(last.pre.processed) \o last.pre.pending \o last.sanitized

\* a commit that took earlier pending text with it, behind earlier slots
C27_Witness ==
    /\ last.op = "append"
    /\ last.chunks # <<>>
    /\ last.pre.pending # <<>>
    /\ last.pre.processed # <<>>
    /\ Chars(processed) # [i \in 1..Len(processed) |-> "A"]

Abs(x) == IF x < 0 THEN 0 - x ELSE x

\* C28: for every committed slot, |readableDelta| <= 2 * shuffle_radius, for
\* every chunk size and every jitter outcome; with shuffle_radius 0 every
\* readableDelta is 0.
C28_DeltaBoundedByRadius ==
    shf.stage = 1 =>
        \A k \in 1..Len(shf.slots) :
            /\ Abs(shf.slots[k].readableDelta) <= 2 * shf.radius
            /\ shf.radius = 0 => shf.slots[k].readableDelta = 0

\* a chunk longer than 2 * radius + 1 in which a slot was displaced
C28_Witness ==
    /\ shf.stage = 1
    /\ shf.radius >= 1
    /\ Len(shf.slots) > 2 * shf.radius + 1
    /\ \E k \in 1..Len(shf.slots) : shf.slots[k].readableDelta # 0

\* C30: the jitter added to each position is an integer in
\* [-shuffle_radius, +shuffle_radius], and both bounds are attainable values.
C30_JitterBothBounds ==
    shf.stage = 1 =>
        /\ \A i \in 1..Len(shf.jit) : shf.jit[i] \in (0 - shf.radius)..shf.radius
        /\ {0 - shf.radius, shf.radius} \subseteq JitterValues(shf.radius)

C32_AppendTerminates == (run.pc = "loop") ~> (run.pc = "done")

\* C33: once start() has been called, whenever the buffer's length is below
\* refillThreshold and no request is in flight, a retry timer is pending (so
\* that a new request is eventually issued).
C33_RefillAlwaysArmed ==
    (llm.started /\ llm.length < llm.refillThreshold /\ llm.requests = 0) =>
        llm.timers # {}

\* C34: at most one request is in flight and at most one retry timer is
\* pending, across every interleaving of start(), timer firings, completions
\* and failures; the streaming flag says whether a request is in flight.
C34_OneRequestOneTimer ==
    /\ llm.requests <= 1
    /\ Cardinality(llm.timers) <= 1
    /\ llm.streaming <=> llm.requests = 1
    /\ LiveIds(llm) \subseteq {llm.pendingRetry}

\* a retry timer is pending while a request is in flight: its firing
\* must not issue a second one
C34_Witness ==
    /\ llm.started
    /\ llm.requests = 1
    /\ llm.timers # {}

====
